---- MODULE Spec2Model ----
(***************************************************************************)
(* pmcr-cli: a configuration-driven command dispatcher.                    *)
(*                                                                         *)
(*   src/core/config.py   load_config = load_app_config + load_modules_config *)
(*   src/core/loader.py   load_callable                                    *)
(*   src/core/runner.py   run_command                                      *)
(*   src/pmcr.py          main                                             *)
(*                                                                         *)
(* Text values (option values, paths, function names) are sequences of     *)
(* one-character strings, so that strip() and split(":", 1) are computed.  *)
(* Option names, section names and message words are atomic strings.       *)
(* The process is single-threaded: pc is the position of main.             *)
(***************************************************************************)
EXTENDS Naturals, Sequences, FiniteSets

\* ------------------------------------------------------------------ bounds
\* Longest raw value of a [modules] entry.
MaxLen == 3
\* Largest number of entries written in the [modules] section.
MaxEntries == 2
\* Largest number of ctx["log"] / ctx["progress"] calls one command makes.
MaxCtxCalls == 2

VARIABLES
    pc,        \* position of main (and of the function it is inside)
    src,       \* the .cfg file handed to the ConfigParser being validated
    app,       \* load_config: app_config
    modules,   \* load_config: modules_config
    config,    \* main: config
    argv,      \* sys.argv, once main has read it
    name,      \* run_command: name
    target,    \* run_command: module (path, function)
    callable,  \* run_command: callable_fn
    exc,       \* the exception raised (in flight, or the one that ended the process)
    trace,     \* everything observable, in order: UI sink output and calls
    ctxCalls,  \* number of ctx calls the running command has made
    exitCode   \* the process's exit status <<n>>, <<>> while it runs

vars == <<pc, src, app, modules, config, argv, name, target, callable, exc,
          trace, ctxCalls, exitCode>>

None == "None"

\* A message: fixed wording plus the values formatted into it (an option or
\* command name in key, text values such as a path and a function name in s1, s2).
Msg(text, key, s1, s2) == [text |-> text, key |-> key, s1 |-> s1, s2 |-> s2]
M(text) == Msg(text, "", <<>>, <<>>)
MK(text, key) == Msg(text, key, <<>>, <<>>)

\* ------------------------------------------------------------------ text
SeqsUpTo(S, n) == UNION {[1..k -> S] : k \in 0..n}

IsSpace(c) == c = " "

\* str.strip(): drop leading and trailing whitespace.
Strip(s) ==
    LET keep == {i \in 1..Len(s) : ~IsSpace(s[i])}
    IN  IF keep = {} THEN <<>>
        ELSE LET lo == CHOOSE i \in keep : \A j \in keep : i <= j
                 hi == CHOOSE i \in keep : \A j \in keep : j <= i
             IN  SubSeq(s, lo, hi)

\* sep in s
Contains(s, sep) == \E i \in 1..Len(s) : s[i] = sep

\* Mutant: s.rsplit(sep, 1), cut at the LAST sep.
RSplit1(s, sep) ==
    LET at == CHOOSE i \in 1..Len(s) :
                  s[i] = sep /\ \A j \in (i + 1)..Len(s) : s[j] # sep
    IN  <<SubSeq(s, 1, at - 1), SubSeq(s, at + 1, Len(s))>>

\* s.split(sep, 1) for an s that contains sep: cut at the FIRST sep.
Split1(s, sep) ==
    LET at == CHOOSE i \in 1..Len(s) :
                  s[i] = sep /\ \A j \in 1..(i - 1) : s[j] # sep
    IN  <<SubSeq(s, 1, at - 1), SubSeq(s, at + 1, Len(s))>>

\* ConfigParser.optionxform is str.lower: option names are lower-cased on read.
Lower(k) ==
    CASE k = "A" -> "a"
      [] k = "Name" -> "name"
      [] OTHER -> k

\* ------------------------------------------------------------------ results
Ok(v) == [ok |-> TRUE, val |-> v]
Raise(type, msg) == [ok |-> FALSE, err |-> [type |-> type, msg |-> msg]]

\* str(e)
Str(e) == e.msg

\* ------------------------------------------------------------------ .cfg files
\* A file on disk: missing, or one section with its entries as written,
\* each entry <<option name, raw value>>.
NoFile == [exists |-> FALSE, section |-> None, entries |-> <<>>]
CfgFile(section, entries) == [exists |-> TRUE, section |-> section, entries |-> entries]

Keys(entries) == {entries[i][1] : i \in 1..Len(entries)}

\* dict lookup by option name (names are unique once parsed)
Get(entries, k) == entries[CHOOSE i \in 1..Len(entries) : entries[i][1] = k][2]

\* ConfigParser.read (strict): names lower-cased, values stripped, a repeated
\* name in one section is a DuplicateOptionError.
_load_cfg(file) ==
    IF ~file.exists
    THEN Raise("RuntimeError", M("Configuration file not found"))
    ELSE LET n   == Len(file.entries)
             opt == [i \in 1..n |-> Lower(file.entries[i][1])]
         IN  IF \E i, j \in 1..n : i < j /\ opt[i] = opt[j]
             THEN LET j == CHOOSE j \in 1..n :
                               /\ \E i \in 1..(j - 1) : opt[i] = opt[j]
                               /\ \A l \in 1..(j - 1) :
                                      ~\E i \in 1..(l - 1) : opt[i] = opt[l]
                  IN  Raise("DuplicateOptionError", MK("option already exists", opt[j]))
             ELSE Ok([section |-> file.section,
                      entries |-> [i \in 1..n |->
                                      <<opt[i], Strip(file.entries[i][2])>>]])

required_keys == <<"name", "version", "description">>

\* Mutant: only the presence of the key is checked.
KeyBadPresenceOnly(entries, key) == key \notin Keys(entries)

\* "key not in app or not app[key].strip()"
KeyBad(entries, key) == key \notin Keys(entries) \/ Strip(Get(entries, key)) = <<>>

load_app_config(file) ==
    LET cfg == _load_cfg(file)
    IN  IF ~cfg.ok THEN cfg
        ELSE IF cfg.val.section # "app"
        THEN Raise("RuntimeError", M("Missing [app] section in cli.cfg"))
        ELSE LET e   == cfg.val.entries
                 bad == {i \in 1..Len(required_keys) : KeyBad(e, required_keys[i])}
             IN  IF bad # {}
                 THEN LET i == CHOOSE i \in bad : \A j \in bad : i <= j
                      IN  Raise("RuntimeError",
                                MK("Missing or empty key in [app] section", required_keys[i]))
                 ELSE Ok([name |-> Get(e, "name"),
                          version |-> Get(e, "version"),
                          description |-> Get(e, "description")])

\* One entry of the loop of load_modules_config.
ParseTarget(nm, tgt) ==
    IF ~Contains(tgt, ":")
    THEN Raise("RuntimeError",
               MK("Invalid module definition. Expected format: path/to/file.py:function", nm))
    ELSE LET parts == Split1(tgt, ":")
         IN  IF parts[1] = <<>> \/ parts[2] = <<>>
             THEN Raise("RuntimeError",
                       MK("Invalid module definition. Path and function must be non-empty", nm))
             ELSE Ok([path |-> parts[1], function |-> parts[2]])

load_modules_config(file) ==
    LET cfg == _load_cfg(file)
    IN  IF ~cfg.ok THEN cfg
        ELSE IF cfg.val.section # "modules"
        THEN Raise("RuntimeError", M("Missing [modules] section in modules_config.cfg"))
        ELSE IF Len(cfg.val.entries) = 0
        THEN Raise("RuntimeError", M("No modules defined in modules_config.cfg"))
        ELSE LET e   == cfg.val.entries
                 one == [i \in 1..Len(e) |-> ParseTarget(e[i][1], e[i][2])]
                 bad == {i \in 1..Len(e) : ~one[i].ok}
             IN  IF bad # {}
                 THEN one[CHOOSE i \in bad : \A j \in bad : i <= j]
                 ELSE Ok([k \in Keys(e) |->
                             one[CHOOSE i \in 1..Len(e) : e[i][1] = k].val])

\* ------------------------------------------------------------------ loader
\* A command file on disk: whether it exists, whether exec_module runs it
\* without raising, and the attributes the loaded module then has.
CmdFile(exists, loads, attrs) == [exists |-> exists, loads |-> loads, attrs |-> attrs]

load_callable(file, path, func_name) ==
    IF ~file.exists
    THEN Raise("RuntimeError", Msg("Command file not found", "", path, <<>>))
    ELSE IF ~file.loads
    THEN Raise("SyntaxError", Msg("exec_module raised", "", path, <<>>))
    ELSE IF func_name \notin file.attrs
    THEN Raise("RuntimeError", Msg("Function not found in file", "", path, func_name))
    ELSE Ok([path |-> path, function |-> func_name, bound |-> TRUE])

\* ------------------------------------------------------------------ inputs
ValueChars == {"p", ":"}
\* Raw values of [modules] entries: every text up to MaxLen, and two padded ones.
ModValues ==
    SeqsUpTo(ValueChars, MaxLen) \cup {<<" ", ":", "p">>, <<"p", ":", "p", " ">>}
ModNames == {"A", "b"}
ModFiles ==
    {NoFile, CfgFile("service", <<<<"b", <<"p", ":", "p">>>>>>)}
        \cup {CfgFile("modules", e) : e \in SeqsUpTo(ModNames \X ModValues, MaxEntries)}

\* Raw values of [app] entries: empty, blank, and a padded text.
AppValues == {<<>>, <<" ">>, <<" ", "p">>}
AppNames == <<"name", "Name", "version", "description">>
AppFiles ==
    {NoFile, CfgFile("service", <<>>)}
        \cup {CfgFile("app", SelectSeq([i \in 1..Len(AppNames) |-> <<AppNames[i], v[i]>>],
                                       LAMBDA e : e[1] \in w)) :
                 w \in SUBSET Keys([i \in 1..Len(AppNames) |-> <<AppNames[i]>>]),
                 v \in [1..Len(AppNames) -> AppValues]}

Argvs == {<<"pmcr">>, <<"pmcr", "a">>, <<"pmcr", "A">>, <<"pmcr", "b", "x">>, <<"pmcr", "c">>}

CmdFiles ==
    {CmdFile(FALSE, FALSE, {}), CmdFile(TRUE, FALSE, {}),
     CmdFile(TRUE, TRUE, {}), CmdFile(TRUE, TRUE, {<<"p">>})}

\* What a command may raise.
CommandErrors == {[type |-> "ValueError", msg |-> M("boom")],
                  [type |-> "KeyError", msg |-> M("")]}

ProgressValues == {"0", "100"}

\* ------------------------------------------------------------------ state
NoExc == [type |-> None, msg |-> M("")]
NoApp == [name |-> <<>>, version |-> <<>>, description |-> <<>>]
NoModules == [k \in {} |-> [path |-> <<>>, function |-> <<>>]]
NoConfig == [app |-> NoApp, modules |-> NoModules]
NoTarget == [path |-> <<>>, function |-> <<>>]
NoCallable == [path |-> <<>>, function |-> <<>>, bound |-> FALSE]

\* One observable event: a UI sink operation or a call.
E(kind, msg) == [kind |-> kind, type |-> "", msg |-> msg]
Call(what) == E(what, M(""))
\* callable_fn raised e
Raised(e) == [kind |-> "raised", type |-> e.type, msg |-> e.msg]
\* console.print(traceback.format_exc()): the exception's type and message.
Traceback(e) == [kind |-> "print", type |-> e.type, msg |-> e.msg]

Init ==
    /\ pc = "main"
    /\ src = NoFile
    /\ app = NoApp
    /\ modules = NoModules
    /\ config = NoConfig
    /\ argv = <<>>
    /\ name = ""
    /\ target = NoTarget
    /\ callable = NoCallable
    /\ exc = NoExc
    /\ trace = <<>>
    /\ ctxCalls = 0
    /\ exitCode = <<>>

\* ------------------------------------------------------------------ main: configuration
\* pmcr.py 47-48 -> config.py 205: load_app_config("cli.cfg")
LoadAppConfig ==
    /\ pc = "main"
    /\ \E f \in AppFiles :
          LET r == load_app_config(f)
          IN  /\ src' = f
              /\ IF r.ok
                 THEN app' = r.val /\ pc' = "load_modules" /\ exc' = exc
                 ELSE app' = app /\ pc' = "config_except" /\ exc' = r.err
    /\ UNCHANGED <<modules, config, argv, name, target, callable, trace, ctxCalls, exitCode>>

\* config.py 206: load_modules_config("modules_config.cfg")
LoadModulesConfig ==
    /\ pc = "load_modules"
    /\ \E f \in ModFiles :
          LET r == load_modules_config(f)
          IN  /\ src' = f
              /\ IF r.ok
                 THEN modules' = r.val /\ pc' = "load_return" /\ exc' = exc
                 ELSE modules' = modules /\ pc' = "config_except" /\ exc' = r.err
    /\ UNCHANGED <<app, config, argv, name, target, callable, trace, ctxCalls, exitCode>>

\* config.py 208-211: load_config returns, main binds config
LoadConfigReturn ==
    /\ pc = "load_return"
    /\ config' = [app |-> app, modules |-> modules]
    /\ src' = NoFile
    /\ pc' = "check_args"
    /\ UNCHANGED <<app, modules, argv, name, target, callable, exc, trace, ctxCalls, exitCode>>

\* Mutant: the process exits with 1 without the fatal notification.
ConfigExceptSilent ==
    /\ pc = "config_except"
    /\ exitCode' = <<1>>
    /\ src' = NoFile
    /\ pc' = "exited"
    /\ UNCHANGED <<app, modules, config, argv, name, target, callable, exc, trace, ctxCalls>>

\* Mutant: the handler reports but does not exit; main goes on.
ConfigExceptContinue ==
    /\ pc = "config_except"
    /\ trace' = Append(trace, E("fatal", Str(exc)))
    /\ src' = NoFile
    /\ pc' = "check_args"
    /\ UNCHANGED <<app, modules, config, argv, name, target, callable, exc, ctxCalls, exitCode>>

\* pmcr.py 49-51: except Exception as e: ui.fatal(str(e)); sys.exit(1)
ConfigExcept ==
    /\ pc = "config_except"
    /\ trace' = Append(trace, E("fatal", Str(exc)))
    /\ exitCode' = <<1>>
    /\ src' = NoFile
    /\ pc' = "exited"
    /\ UNCHANGED <<app, modules, config, argv, name, target, callable, exc, ctxCalls>>

\* pmcr.py 53-74: read sys.argv, require a command name, call run_command
CheckArgs ==
    /\ pc = "check_args"
    /\ \E av \in Argvs :
          /\ argv' = av
          /\ IF Len(av) < 2
             THEN /\ trace' = trace \o <<Call("sys.argv"),
                                         E("error", M("No command specified")),
                                         E("info", Msg("Usage: <command> [args]", "",
                                                       config.app.name, <<>>))>>
                  /\ exitCode' = <<1>>
                  /\ name' = name
                  /\ pc' = "exited"
             ELSE /\ trace' = trace \o <<Call("sys.argv"), Call("run_command")>>
                  /\ exitCode' = exitCode
                  /\ name' = av[2]
                  /\ pc' = "run_lookup"
    /\ UNCHANGED <<src, app, modules, config, target, callable, exc, ctxCalls>>

\* ------------------------------------------------------------------ run_command
\* RuntimeError(f"Command '{name}' not defined")
NotDefined(nm) == [type |-> "RuntimeError", msg |-> MK("Command not defined", nm)]

\* Mutant: the definedness check comes only after the resolver was called.
RunLookupLate ==
    /\ pc = "run_lookup"
    /\ IF name \notin DOMAIN config.modules
       THEN /\ exc' = NotDefined(name)
            /\ pc' = "main_except"
            /\ trace' = Append(trace, Call("load_callable"))
            /\ UNCHANGED target
       ELSE /\ target' = config.modules[name]
            /\ trace' = trace \o
                  <<E("header", Msg("app . name", name, config.app.name, <<>>)),
                    E("info", Msg("Loading path:func", "", config.modules[name].path,
                                  config.modules[name].function))>>
            /\ pc' = "run_resolve"
            /\ exc' = exc
    /\ UNCHANGED <<src, app, modules, config, argv, name, callable, ctxCalls, exitCode>>

\* runner.py 50-65: the command must be defined; header and info
RunLookup ==
    /\ pc = "run_lookup"
    /\ IF name \notin DOMAIN config.modules
       THEN /\ exc' = NotDefined(name)
            /\ pc' = "main_except"
            /\ UNCHANGED <<target, trace>>
       ELSE /\ target' = config.modules[name]
            /\ trace' = trace \o
                  <<E("header", Msg("app . name", name, config.app.name, <<>>)),
                    E("info", Msg("Loading path:func", "", config.modules[name].path,
                                  config.modules[name].function))>>
            /\ pc' = "run_resolve"
            /\ exc' = exc
    /\ UNCHANGED <<src, app, modules, config, argv, name, callable, ctxCalls, exitCode>>

\* Mutant: load_callable is called inside the try, so its failure is reported.
RunResolveInTry ==
    /\ pc = "run_resolve"
    /\ \E f \in CmdFiles :
          LET r == load_callable(f, target.path, target.function)
          IN  IF r.ok
              THEN callable' = r.val /\ pc' = "run_invoke" /\ exc' = exc
              ELSE callable' = callable /\ pc' = "run_except" /\ exc' = r.err
    /\ trace' = Append(trace, Call("load_callable"))
    /\ UNCHANGED <<src, app, modules, config, argv, name, target, ctxCalls, exitCode>>

\* runner.py 68-71 -> loader.py 47-73: load_callable(path, func), outside the try
RunResolve ==
    /\ pc = "run_resolve"
    /\ \E f \in CmdFiles :
          LET r == load_callable(f, target.path, target.function)
          IN  IF r.ok
              THEN callable' = r.val /\ pc' = "run_invoke" /\ exc' = exc
              ELSE callable' = callable /\ pc' = "main_except" /\ exc' = r.err
    /\ trace' = Append(trace, Call("load_callable"))
    /\ UNCHANGED <<src, app, modules, config, argv, name, target, ctxCalls, exitCode>>

\* runner.py 73-98: enter the progress context, build ctx, call callable_fn(args, ctx)
RunInvoke ==
    /\ pc = "run_invoke"
    /\ trace' = trace \o <<E("progress", MK("start", "0")), Call("callable_fn")>>
    /\ pc' = "in_callable"
    /\ UNCHANGED <<src, app, modules, config, argv, name, target, callable, exc,
                   ctxCalls, exitCode>>

\* runner.py 92: the command calls ctx["log"](msg), which is ui.info
CtxLog ==
    /\ pc = "in_callable"
    /\ ctxCalls < MaxCtxCalls
    /\ ctxCalls' = ctxCalls + 1
    /\ trace' = Append(trace, E("info", M("log line")))
    /\ UNCHANGED <<pc, src, app, modules, config, argv, name, target, callable, exc, exitCode>>

\* runner.py 88: the command calls ctx["progress"](p), which is progress.update
CtxProgress ==
    /\ pc = "in_callable"
    /\ ctxCalls < MaxCtxCalls
    /\ ctxCalls' = ctxCalls + 1
    /\ \E p \in ProgressValues : trace' = Append(trace, E("progress", MK("update", p)))
    /\ UNCHANGED <<pc, src, app, modules, config, argv, name, target, callable, exc, exitCode>>

\* runner.py 98: callable_fn returns normally; the with block exits
CallableReturn ==
    /\ pc = "in_callable"
    /\ trace' = Append(trace, Call("returned"))
    /\ pc' = "run_success"
    /\ UNCHANGED <<src, app, modules, config, argv, name, target, callable, exc,
                   ctxCalls, exitCode>>

\* runner.py 98: callable_fn raises; the with block exits with the exception
CallableRaise ==
    /\ pc = "in_callable"
    /\ \E e \in CommandErrors : exc' = e /\ trace' = Append(trace, Raised(e))
    /\ pc' = "run_except"
    /\ UNCHANGED <<src, app, modules, config, argv, name, target, callable,
                   ctxCalls, exitCode>>

\* Mutant: after the first failure the callable is invoked once more.
RunExceptRetryOnce ==
    /\ pc = "run_except"
    /\ trace' = trace \o <<E("error", M("Command failed")), Traceback(exc)>>
    /\ pc' = IF \E i \in 1..Len(trace) : trace[i].kind = "error"
             THEN "main_except" ELSE "run_invoke"
    /\ UNCHANGED <<src, app, modules, config, argv, name, target, callable, exc,
                   ctxCalls, exitCode>>

\* Mutant: the handler reports but does not re-raise; control falls through.
RunExceptSwallow ==
    /\ pc = "run_except"
    /\ trace' = trace \o <<E("error", M("Command failed")), Traceback(exc)>>
    /\ pc' = "run_success"
    /\ UNCHANGED <<src, app, modules, config, argv, name, target, callable, exc,
                   ctxCalls, exitCode>>

\* runner.py 100-108: except Exception: ui.error, print the traceback, raise
RunExcept ==
    /\ pc = "run_except"
    /\ trace' = trace \o <<E("error", M("Command failed")), Traceback(exc)>>
    /\ pc' = "main_except"
    /\ UNCHANGED <<src, app, modules, config, argv, name, target, callable, exc,
                   ctxCalls, exitCode>>

\* Mutant: the run ends without the success notification.
RunSuccessSilent ==
    /\ pc = "run_success"
    /\ pc' = "main_return"
    /\ UNCHANGED <<src, app, modules, config, argv, name, target, callable, exc,
                   trace, ctxCalls, exitCode>>

\* runner.py 110-114: elapsed time, ui.success
RunSuccess ==
    /\ pc = "run_success"
    /\ trace' = Append(trace, E("success", M("Completed in elapsed s")))
    /\ pc' = "main_return"
    /\ UNCHANGED <<src, app, modules, config, argv, name, target, callable, exc,
                   ctxCalls, exitCode>>

\* ------------------------------------------------------------------ main: the end
\* pmcr.py 74, 89-90: run_command returned, main returns, the interpreter exits 0
MainReturn ==
    /\ pc = "main_return"
    /\ exitCode' = <<0>>
    /\ pc' = "exited"
    /\ UNCHANGED <<src, app, modules, config, argv, name, target, callable, exc,
                   trace, ctxCalls>>

\* Mutant: the handler reports but does not exit with 1.
MainExceptNoExit ==
    /\ pc = "main_except"
    /\ trace' = trace \o <<E("fatal", Str(exc)), Call("input")>>
    /\ exitCode' = <<0>>
    /\ pc' = "exited"
    /\ UNCHANGED <<src, app, modules, config, argv, name, target, callable, exc, ctxCalls>>

\* pmcr.py 76-85: except Exception as e: ui.fatal(str(e)); input(...); sys.exit(1)
MainExcept ==
    /\ pc = "main_except"
    /\ trace' = trace \o <<E("fatal", Str(exc)), Call("input")>>
    /\ exitCode' = <<1>>
    /\ pc' = "exited"
    /\ UNCHANGED <<src, app, modules, config, argv, name, target, callable, exc, ctxCalls>>

Next ==
    \/ LoadAppConfig
    \/ LoadModulesConfig
    \/ LoadConfigReturn
    \/ ConfigExcept
    \/ CheckArgs
    \/ RunLookup
    \/ RunResolve
    \/ RunInvoke
    \/ CtxLog
    \/ CtxProgress
    \/ CallableReturn
    \/ CallableRaise
    \/ RunExcept
    \/ RunSuccess
    \/ MainReturn
    \/ MainExcept

Spec == Init /\ [][Next]_vars

TypeOK ==
    /\ pc \in {"main", "load_modules", "load_return", "config_except", "check_args",
               "run_lookup", "run_resolve", "run_invoke", "in_callable", "run_except",
               "run_success", "main_return", "main_except", "exited"}
    /\ exitCode \in {<<>>, <<0>>, <<1>>}
    /\ ctxCalls \in 0..MaxCtxCalls

\* ------------------------------------------------------------------ observations
Idx(kind) == {i \in 1..Len(trace) : trace[i].kind = kind}
Count(kind) == Cardinality(Idx(kind))
First(kind) == CHOOSE i \in Idx(kind) : \A j \in Idx(kind) : i <= j

RunCalled == Count("run_command") >= 1
\* load_callable was called and raised
ResolutionFailed == Count("load_callable") = 1 /\ ~callable.bound

\* C1: a run of a command name that is not a key of the configured commands
\* ends with the "command not defined" error, and load_callable is never called
\* and no callable is ever invoked in that run.
C1_UndefinedCommandFails ==
    (RunCalled /\ name \notin DOMAIN config.modules) =>
        /\ Count("load_callable") = 0
        /\ Count("callable_fn") = 0
        /\ pc \in {"run_lookup", "main_except", "exited"}
        /\ pc # "run_lookup" => exc = [type |-> "RuntimeError", msg |-> MK("Command not defined", name)]

C1_Witness ==
    /\ pc = "main_except"
    /\ name \notin DOMAIN config.modules
    /\ exc = [type |-> "RuntimeError", msg |-> MK("Command not defined", name)]

\* C2: when the resolved callable raises, run_command emits the error
\* notification and right after it the traceback of that error, the caller then
\* sees the very error the callable raised, and no success notification is
\* emitted in the run.
C2_CommandFailureReported ==
    Count("raised") = 1 =>
        LET i == First("raised")
        IN  /\ Count("success") = 0
            /\ exc = [type |-> trace[i].type, msg |-> trace[i].msg]
            /\ pc \in {"run_except", "main_except", "exited"}
            /\ pc # "run_except" =>
                  /\ Len(trace) >= i + 2
                  /\ trace[i + 1] = E("error", M("Command failed"))
                  /\ trace[i + 2] = Traceback(exc)

C2_Witness ==
    /\ pc = "main_except"
    /\ Count("raised") = 1
    /\ Count("callable_fn") = 1
    /\ trace[Len(trace)].kind = "print"

\* C3 as claimed: a failed resolution is reported to the UI sink by an error
\* notification and a traceback before it reaches the entry point.
C3_ResolutionFailureReported ==
    (ResolutionFailed /\ pc = "main_except") =>
        \E i, j \in 1..Len(trace) :
            i < j /\ trace[i].kind = "error" /\ trace[j].kind = "print"

\* C3 amended: a failed resolution leaves run_command without any error
\* notification or traceback (load_callable is called outside the try); the
\* resolver's error reaches main unchanged, and main reports it by the fatal
\* notification and exits with 1.
C3_ResolutionFailurePropagated ==
    ResolutionFailed =>
        /\ Count("error") = 0
        /\ Count("print") = 0
        /\ Count("callable_fn") = 0
        /\ Count("success") = 0
        /\ {trace[i].kind : i \in First("run_command")..First("load_callable")}
              = {"run_command", "header", "info", "load_callable"}
        /\ pc \in {"main_except", "exited"}
        /\ exc.msg.text \in {"Command file not found", "exec_module raised",
                             "Function not found in file"}
        /\ exc.msg.s1 = target.path
        /\ pc = "exited" =>
              /\ exitCode = <<1>>
              /\ trace[Len(trace) - 1] = E("fatal", Str(exc))

C3_Witness ==
    /\ ResolutionFailed
    /\ pc = "exited"
    /\ exc.msg.text = "Function not found in file"

\* C4: the success notification is emitted at most once; it is emitted exactly
\* once when the callable returned normally, and then after that return; it is
\* never emitted in a run that failed at lookup, at resolution or in the callable.
C4_SuccessExactlyOnce ==
    /\ Count("success") <= 1
    /\ Count("success") = 1 =>
          Count("returned") = 1 /\ First("returned") < First("success")
    /\ (Count("returned") = 1 /\ pc # "run_success") => Count("success") = 1
    /\ exc # NoExc => Count("success") = 0
    /\ pc = "main_except" => Count("success") = 0

C4_Witness ==
    /\ pc = "main_return"
    /\ Count("success") = 1
    /\ trace[Len(trace)].kind = "success"

\* ------------------------------------------------------------------ exit status
Exited == pc = "exited"
\* load_config raised
ConfigFailed == pc = "config_except" \/ (Exited /\ config = NoConfig)
\* sys.argv was read and holds no command name
MissingName == Len(argv) = 1
UnknownCommand == exc.msg.text = "Command not defined"
ExecutionFailed == Count("raised") = 1
Completed == Count("returned") = 1 /\ Count("success") = 1 /\ exc = NoExc

\* C5: the process exits with 0 exactly when the requested command ran to
\* successful completion, and with 1 on configuration failure, missing command
\* name, unknown command, resolution failure and command execution failure;
\* every exit is one of these.
C5_ExitCode ==
    /\ Exited <=> exitCode # <<>>
    /\ Exited =>
          /\ exitCode \in {<<0>>, <<1>>}
          /\ exitCode = <<0>> <=> Completed
          /\ (ConfigFailed \/ MissingName \/ UnknownCommand \/ ResolutionFailed
                \/ ExecutionFailed) <=> exitCode = <<1>>

C5_Witness ==
    /\ Exited
    /\ exitCode = <<0>>
    /\ Completed
    /\ ctxCalls = MaxCtxCalls

\* C6 as claimed: every exit on a fatal condition is preceded by a fatal
\* notification.
C6_FatalNotificationAlways ==
    (Exited /\ exitCode = <<1>>) => Count("fatal") >= 1

\* C6 amended: on configuration failure, unknown command, resolution failure
\* and command execution failure main emits exactly one fatal notification,
\* carrying str() of the error, as its last notification before exiting; on a
\* missing command name it emits no fatal notification but an error
\* notification followed by the usage info notification.
C6_FatalNotification ==
    (Exited /\ exitCode = <<1>>) =>
        IF MissingName
        THEN /\ Count("fatal") = 0
             /\ trace[Len(trace) - 1] = E("error", M("No command specified"))
             /\ trace[Len(trace)].kind = "info"
             /\ exc = NoExc
        ELSE /\ exc # NoExc
             /\ Count("fatal") = 1
             /\ trace[First("fatal")] = E("fatal", Str(exc))
             /\ \A i \in 1..Len(trace) :
                    i > First("fatal") => trace[i] = Call("input")

C6_Witness ==
    /\ Exited
    /\ ExecutionFailed
    /\ Count("fatal") = 1
    /\ trace[First("fatal")].msg = exc.msg

\* ------------------------------------------------------------------ configuration
\* The source file read last, described without the loader's own operators.
Written == 1..Len(src.entries)
WName(i) == src.entries[i][1]
WValue(i) == Strip(src.entries[i][2])
Colons(v) == {i \in 1..Len(v) : v[i] = ":"}
FirstColon(v) == CHOOSE i \in Colons(v) : \A j \in Colons(v) : i <= j
\* no separator, nothing before the first separator, or nothing after it
Malformed(v) == Colons(v) = {} \/ FirstColon(v) = 1 \/ FirstColon(v) = Len(v)
\* a required key is written (in any letter case) with a non-blank value
KeyGiven(key) == \E i \in Written : Lower(WName(i)) = key /\ WValue(i) # <<>>

\* load_app_config has failed / load_modules_config has failed
AppStageFailed == pc = "config_except" /\ app = NoApp
ModStageFailed == pc = "config_except" /\ app # NoApp

CompleteConfig(c) ==
    /\ c.app.name # <<>> /\ c.app.version # <<>> /\ c.app.description # <<>>
    /\ DOMAIN c.modules # {}
    /\ \A k \in DOMAIN c.modules :
          c.modules[k].path # <<>> /\ c.modules[k].function # <<>>

\* C7: load_config returns only complete configurations (three non-empty app
\* fields, at least one command, every command with non-empty path and
\* function), and it fails, leaving main without a configuration, whenever the
\* app section or a required key is missing or empty or some command entry
\* lacks the separator or has an empty path or function.
C7_NoPartialConfiguration ==
    /\ config # NoConfig => CompleteConfig(config)
    /\ pc = "load_return" => CompleteConfig([app |-> app, modules |-> modules])
    /\ pc = "load_modules" =>
          /\ src.exists /\ src.section = "app"
          /\ \A i \in 1..Len(required_keys) : KeyGiven(required_keys[i])
    /\ pc = "load_return" =>
          /\ src.exists /\ src.section = "modules" /\ Written # {}
          /\ \A i \in Written : ~Malformed(WValue(i))
    /\ ConfigFailed => config = NoConfig /\ exc # NoExc

C7_Witness ==
    /\ pc = "load_return"
    /\ Cardinality(DOMAIN modules) = 2
    /\ \E i \in Written : Len(src.entries[i][2]) > Len(WValue(i))

\* C8 as claimed: an accepted command entry contains the separator exactly once.
C8_SeparatorExactlyOnce ==
    pc = "load_return" => \A i \in Written : Cardinality(Colons(WValue(i))) = 1

\* C8 amended: load_modules_config accepts a command entry exactly when its
\* value contains the separator at least once with non-empty text before the
\* FIRST separator and non-empty text after it; the value is split there, so
\* further separators stay in the function name and such an entry is accepted;
\* a file that parses and holds an entry without separator (or with an empty
\* part) fails the load with an error naming the first such command by its
\* lower-cased name.
C8_SplitAtFirstSeparator ==
    /\ pc = "load_return" =>
          \A i \in Written :
              LET v == WValue(i)
                  d == modules[Lower(WName(i))]
              IN  /\ ~Malformed(v)
                  /\ d.path = SubSeq(v, 1, FirstColon(v) - 1)
                  /\ d.function = SubSeq(v, FirstColon(v) + 1, Len(v))
    /\ (ModStageFailed /\ exc.type = "RuntimeError" /\ src.exists
          /\ src.section = "modules" /\ Written # {}) =>
          /\ \E i \in Written : Malformed(WValue(i))
          /\ LET bad == {i \in Written : Malformed(WValue(i))}
                 b   == CHOOSE i \in bad : \A j \in bad : i <= j
             IN  /\ exc.msg.key = Lower(WName(b))
                 /\ Colons(WValue(b)) = {} <=>
                        exc.msg.text = "Invalid module definition. Expected format: path/to/file.py:function"

C8_Witness ==
    /\ pc = "load_return"
    /\ \E i \in Written : Cardinality(Colons(WValue(i))) = 2

\* C9 as claimed: the returned commands mapping has as many entries as the
\* source's commands section and its keys are exactly the names written there.
C9_KeysAsWritten ==
    pc = "load_return" =>
        /\ Cardinality(DOMAIN modules) = Len(src.entries)
        /\ DOMAIN modules = {WName(i) : i \in Written}

\* C10: configuration is loaded before anything else: while it is loading
\* nothing is emitted, sys.argv is not read and no command file is resolved;
\* when it fails the process emits the fatal notification and exits with 1
\* without reading sys.argv, calling run_command, calling load_callable or
\* invoking a callable.
C10_ConfigurationFirst ==
    /\ pc \in {"main", "load_modules", "load_return", "config_except"} =>
          trace = <<>> /\ argv = <<>>
    /\ ConfigFailed =>
          /\ argv = <<>>
          /\ Count("sys.argv") = 0
          /\ Count("run_command") = 0
          /\ Count("load_callable") = 0
          /\ Count("callable_fn") = 0
          /\ Exited => trace = <<E("fatal", Str(exc))>> /\ exitCode = <<1>>
    /\ Count("sys.argv") >= 1 => config # NoConfig

C10_Witness ==
    /\ Exited
    /\ config = NoConfig
    /\ exc.type = "DuplicateOptionError"
    /\ trace = <<E("fatal", Str(exc))>>

\* ------------------------------------------------------------------ the run's state machine
\* The state of the run_command call, read off the position of the process.
RunState ==
    CASE pc = "run_lookup" -> "Idle"
      [] pc = "run_resolve" -> "Resolving"
      [] pc \in {"run_invoke", "in_callable", "run_except", "run_success"} -> "Executing"
      [] pc = "main_return" -> "Completed"
      [] pc = "main_except" -> "Failed"
      [] pc = "exited" /\ RunCalled -> IF exc = NoExc THEN "Completed" ELSE "Failed"
      [] OTHER -> "NotCalled"

RunEdges ==
    {<<"NotCalled", "Idle">>, <<"Idle", "Resolving">>, <<"Idle", "Failed">>,
     <<"Resolving", "Executing">>, <<"Resolving", "Failed">>,
     <<"Executing", "Completed">>, <<"Executing", "Failed">>}

\* what holds of a run in every state
RunLinear ==
    /\ Count("run_command") <= 1
    /\ Count("header") <= 1
    /\ Count("load_callable") <= 1
    /\ Count("callable_fn") <= 1
    /\ RunState \in {"Resolving", "Executing", "Completed"} =>
          /\ name \in DOMAIN config.modules
          /\ Count("header") = 1
          /\ trace[First("header") + 1] =
                E("info", Msg("Loading path:func", "", config.modules[name].path,
                              config.modules[name].function))
          /\ First("run_command") < First("header")
    /\ RunState = "Resolving" => Count("load_callable") = 0
    /\ Count("load_callable") = 1 =>
          /\ Count("header") = 1
          /\ First("header") + 1 < First("load_callable")
    /\ RunState \in {"Executing", "Completed"} =>
          Count("load_callable") = 1 /\ callable.bound
    /\ (RunState = "Failed" /\ name \in DOMAIN config.modules) =>
          Count("load_callable") = 1
    /\ Count("callable_fn") = 1 =>
          /\ callable.bound
          /\ First("load_callable") < First("callable_fn")
    /\ RunState = "Completed" =>
          /\ Count("callable_fn") = 1
          /\ Count("returned") = 1
          /\ Count("raised") = 0
          /\ exc = NoExc
    /\ RunState = "Failed" =>
          /\ exc # NoExc
          /\ Count("returned") = 0
          /\ \/ name \notin DOMAIN config.modules
             \/ ResolutionFailed
             \/ Count("raised") = 1

\* what holds of every step of a run: the state stays or moves along an edge
RunStep == RunState' = RunState \/ <<RunState, RunState'>> \in RunEdges

\* C11: a run_command call goes once through Idle -> Resolving -> Executing ->
\* Completed or Failed and never back: for a defined command the header and
\* right after it the info notification naming path and function come before
\* the one call of the resolver, the callable is invoked at most once and only
\* after the resolver returned a callable, and the run ends Completed (the
\* callable returned) or Failed (lookup, resolution or invocation), never both.
C11_LinearRun == [](RunLinear) /\ [][RunStep]_vars

C11_Witness ==
    /\ RunState = "Completed"
    /\ pc = "main_return"
    /\ First("header") < First("load_callable")
    /\ First("load_callable") < First("callable_fn")
    /\ First("callable_fn") < First("returned")

====
